---- MODULE Spec2Model ----
(***************************************************************************)
(* Model of gsadjust/data/adjustment.py: the Adjustment object with its    *)
(* least-squares inversion (python_lsq_inversion), chi-square statistics   *)
(* (lsq_statistics) and the statistics report (get_report).                *)
(*                                                                         *)
(* Floating-point values are modelled as exact rationals <<n, d>> with     *)
(* d > 0 and gcd(n, d) = 1, extended with the IEEE special values          *)
(* <<1, 0>> (inf), <<-1, 0>> (-inf) and <<0, 0>> (nan).  Irrational        *)
(* results (np.sqrt, np.log) are computed in fixed point with Scale units  *)
(* per 1, except SDaposteriori, which is kept as the value passed to       *)
(* np.sqrt.                                                                *)
(*                                                                         *)
(* Model of gsadjust/gui/tabs/drift.py: the controls of the drift tab and  *)
(* the handlers that enable and disable them (set_drift_method,            *)
(* drift_combobox_updated, reset), plot_drift as far as the deltas it      *)
(* returns, calc_none_dg, update_deltas_on_adj_tab,                        *)
(* screen_for_elapsed_time and process_tares.                              *)
(***************************************************************************)
EXTENDS Integers, Sequences, FiniteSets, TLC

\* ------------------------------------------------------------------ bounds
\* largest number of station unknowns (columns of A)
NStations == 2
\* largest number of observations (rows of A)
MaxObs == 3
\* an observation's value is 0 or MaxVal
MaxVal == 2
\* an observation's weight (1/variance) is 1 or MaxWeight
MaxWeight == 2
\* fixed-point units per 1 for the values np.sqrt and np.log return
Scale == 1000
\* largest number of degrees of freedom the critical value is computed for
MaxDof == 8
\* largest number of dicts, over all instances, that are given an item
MaxItems == 1
\* largest number of drift terms of a loop
MaxDegree == 2
\* a drift coefficient is 1 or MaxCoef
MaxCoef == 2

\* ------------------------------------------------------ float arithmetic
Abs(x) == IF x < 0 THEN -x ELSE x
Sign(x) == IF x < 0 THEN -1 ELSE IF x > 0 THEN 1 ELSE 0

RECURSIVE GCD(_, _)
GCD(a, b) == IF b = 0 THEN a ELSE GCD(b, a % b)

\* the float n/d; a zero denominator gives inf, -inf or nan as IEEE does
Norm(n, d) ==
    IF d = 0 THEN <<Sign(n), 0>>
    ELSE LET g == GCD(Abs(n), Abs(d))
         IN  <<(Sign(d) * Sign(n) * Abs(n)) \div g, Abs(d) \div g>>

Rat(i) == <<i, 1>>
Zero == <<0, 1>>
NaN == <<0, 0>>
IsFinite(a) == a[2] # 0
IsNaN(a) == a = NaN

Mul(a, b) == Norm(a[1] * b[1], a[2] * b[2])
Div(a, b) == Norm(a[1] * b[2], a[2] * b[1])
Add(a, b) ==
    IF IsFinite(a) /\ IsFinite(b) THEN Norm(a[1] * b[2] + b[1] * a[2], a[2] * b[2])
    ELSE IF IsNaN(a) \/ IsNaN(b) THEN NaN
    ELSE IF ~IsFinite(a) /\ ~IsFinite(b) THEN (IF a = b THEN a ELSE NaN)
    ELSE IF IsFinite(a) THEN b ELSE a
Neg(a) == <<-a[1], a[2]>>
Sub(a, b) == Add(a, Neg(b))
\* a < b as floats compare: any comparison with nan is False
Lt(a, b) ==
    IF IsNaN(a) \/ IsNaN(b) THEN FALSE
    ELSE IF IsFinite(a) /\ IsFinite(b) THEN a[1] * b[2] < b[1] * a[2]
    ELSE IF ~IsFinite(a) /\ ~IsFinite(b) THEN a[1] < b[1]
    ELSE IF IsFinite(a) THEN b[1] > 0 ELSE a[1] < 0

\* ------------------------------------------------------- matrices (ndarray)
\* a matrix is a sequence of rows, each a sequence of floats
NRows(M) == Len(M)
NCols(M) == IF Len(M) = 0 THEN 0 ELSE Len(M[1])

RECURSIVE Tab(_, _)
\* the sequence <<f[1], ..., f[n]>> with every element evaluated
Tab(f, n) == IF n = 0 THEN <<>> ELSE Append(Tab(f, n - 1), f[n])

RECURSIVE Sum(_, _)
\* f[1] + ... + f[n]
Sum(f, n) == IF n = 0 THEN Zero ELSE Add(Sum(f, n - 1), f[n])

Transpose(M) ==
    Tab([j \in 1..NCols(M) |-> Tab([i \in 1..NRows(M) |-> M[i][j]], NRows(M))],
        NCols(M))

\* ndarray.dot for two 2-D arrays
Dot(M, K) ==
    Tab([i \in 1..NRows(M) |->
            Tab([j \in 1..NCols(K) |->
                    Sum([k \in 1..NRows(K) |-> Mul(M[i][k], K[k][j])], NRows(K))],
                NCols(K))],
        NRows(M))

MatSub(M, K) ==
    Tab([i \in 1..NRows(M) |->
            Tab([j \in 1..NCols(M) |-> Sub(M[i][j], K[i][j])], NCols(M))],
        NRows(M))

\* array * scalar
Scalar(M, s) ==
    Tab([i \in 1..NRows(M) |-> Tab([j \in 1..NCols(M) |-> Mul(M[i][j], s)], NCols(M))],
        NRows(M))

\* np.diagonal
Diagonal(M) == Tab([i \in 1..NRows(M) |-> M[i][i]], NRows(M))

\* M without row i and column j
Minor(M, i, j) ==
    Tab([a \in 1..(NRows(M) - 1) |->
            Tab([b \in 1..(NCols(M) - 1) |->
                    M[IF a < i THEN a ELSE a + 1][IF b < j THEN b ELSE b + 1]],
                NCols(M) - 1)],
        NRows(M) - 1)

RECURSIVE Det(_)
\* determinant of a matrix of finite entries by cofactor expansion along the
\* first row; the cofactor of a zero entry is not computed
Det(M) ==
    IF NRows(M) = 0 THEN Rat(1)
    ELSE IF NRows(M) = 1 THEN M[1][1]
    ELSE Sum([j \in 1..NCols(M) |->
                 IF M[1][j] = Zero THEN Zero
                 ELSE Mul(Mul(Rat(IF j % 2 = 1 THEN 1 ELSE -1), M[1][j]),
                          Det(Minor(M, 1, j)))],
             NCols(M))

\* mutant: the singularity test left out
Invertible_shape_only(M) == NRows(M) > 0 /\ NRows(M) = NCols(M)
\* np.linalg.inv raises LinAlgError on an array that is not 2-D and square or
\* that is singular
Invertible(M) == NRows(M) > 0 /\ NRows(M) = NCols(M) /\ Det(M) # Zero

\* the adjugate of M over d
AdjOver(M, d) ==
    Tab([i \in 1..NRows(M) |->
            Tab([j \in 1..NCols(M) |->
                    Div(Mul(Rat(IF (i + j) % 2 = 0 THEN 1 ELSE -1), Det(Minor(M, j, i))), d)],
                NCols(M))],
        NRows(M))
\* np.linalg.inv of an invertible matrix: the adjugate over the determinant
Inv(M) == AdjOver(M, Det(M))

\* -------------------------------------------------- np.sqrt and np.log
RECURSIVE ISqrtFrom(_, _)
\* Newton's iteration from above for the integer square root of n
ISqrtFrom(n, x) ==
    LET y == (x + n \div x) \div 2
    IN  IF y >= x THEN x ELSE ISqrtFrom(n, y)
ISqrt(n) == IF n <= 0 THEN 0 ELSE ISqrtFrom(n, n)

\* fixed-point values: v stands for v / Scale
FMul(a, b) == (a * b) \div Scale
FDiv(a, b) == (a * Scale) \div b
\* np.sqrt of a value >= 0
FSqrt(v) == ISqrt(v * Scale)
\* a coefficient written in the source with 6 decimals, c = coefficient * 10^6
Coef(c) == ((c \div 1000) * Scale) \div 1000

RECURSIVE FLn(_)
\* np.log of a value >= 1: halve down to [1, 2), then 2*atanh((x-1)/(x+1))
FLn(x) ==
    IF x >= 2 * Scale THEN Coef(693147) + FLn(x \div 2)
    ELSE LET y  == FDiv(x - Scale, x + Scale)
             y2 == FMul(y, y)
             y3 == FMul(y2, y)
             y5 == FMul(y3, y2)
             y7 == FMul(y5, y2)
         IN  2 * (y + y3 \div 3 + y5 \div 5 + y7 \div 7)

\* SDaposteriori is held as the value np.sqrt was applied to
Sqrt(q) == <<"sqrt", q>>
\* the square of such a value: nan when np.sqrt was given nan or a negative
Squared(s) == IF IsNaN(s[2]) \/ Lt(s[2], Zero) THEN NaN ELSE s[2]

\* ------------------------------------------------------------------ state
VARIABLES
    A,                  \* model matrix, n_observations x n_unknowns
    P,                  \* weight matrix, n_observations x n_observations
    Obs,                \* observation vector, n_observations x 1
    dof,                \* degrees of freedom
    X,                  \* unknowns, n_unknowns x 1
    r,                  \* residuals, n_observations x 1
    VtPV,               \* 1 x 1
    SDaposteriori,
    var,                \* diagonal of the a-posteriori covariance
    adjustmentoptions,  \* AdjustmentOptions
    adjustmentresults,  \* AdjustmentResults
    op,                 \* the method called last
    err,                \* the exception it raised, "none" if it returned
    ret,                \* the value it returned
    n_meters,           \* number of meters with a solved calibration coefficient
    sta_dic_ls,         \* dict: station name -> its observations
    netadj_loop_keys,   \* dict: loop name -> (first drift term, number of terms)
    heap,               \* the mutable objects created so far, by address
    adjustments,        \* the Adjustment instances created on the heap
    drift_tab,          \* TabDrift: the state of its drift controls
    obstreeloop,        \* the loop shown in the drift tab
    survey,             \* the survey the loop belongs to
    call                \* the drift-tab method called last, its arguments and outcome

\* the other attributes of the Adjustment that results_string reads
report_vars == <<n_meters, sta_dic_ls, netadj_loop_keys>>
\* Adjustment instances as objects with an identity
heap_vars == <<heap, adjustments>>
\* the drift tab and what it shows
drift_vars == <<drift_tab, obstreeloop, survey, call>>

vars == <<A, P, Obs, dof, X, r, VtPV, SDaposteriori, var,
          adjustmentoptions, adjustmentresults, op, err, ret,
          n_meters, sta_dic_ls, netadj_loop_keys, heap, adjustments,
          drift_tab, obstreeloop, survey, call>>

\* np.array([])
Empty == <<>>
\* a call's return value: None, the string '', or a list of report lines
None == [kind |-> "None", lines |-> <<>>]
EmptyStr == [kind |-> "str", lines |-> <<>>]
List(lines) == [kind |-> "list", lines |-> lines]
\* an attribute that was never assigned holds <<>>, an assigned one <<value>>
Unset == <<>>
Set(v) == <<v>>
\* a dict is the sequence of its <<key, value>> items in insertion order
EmptyDict == <<>>

\* AdjustmentOptions.__init__ (the fields the statistics and the report
\* read); meter_cal_dict = None is held as Unset
AdjustmentOptionsInit ==
    [alpha |-> <<1, 20>>, cal_coeff |-> FALSE, specify_cal_coeff |-> FALSE,
     meter_cal_dict |-> Unset]

\* AdjustmentResults.__init__; the attribute dof does not exist until
\* lsq_statistics assigns it
AdjustmentResultsInit ==
    [n_unknowns |-> 0, n_deltas |-> 0, n_datums |-> 0,
     max_dg_residual |-> Zero, min_dg_residual |-> Zero,
     max_datum_residual |-> Zero, min_datum_residual |-> Zero,
     avg_stdev |-> Zero, chi2 |-> Zero, chi2c |-> Zero, dof |-> Unset,
     cal_dic |-> EmptyDict, netadj_drift_dic |-> EmptyDict, text |-> <<>>]

\* ---- the drift tab (gui/tabs/drift.py) after TabDrift.__init__
\* driftmethod_combobox_key: the items of the drift method combobox
Methods == <<"none", "netadj", "roman", "continuous">>
\* parent.drift_lookup, inverted: the method an item of the combobox names
MethodOf(index) == Methods[index + 1]
\* drift_polydegree_combobox_key: the items of the drift model type combobox
ModelTypes == <<"Constant", "Spline", "1st order polynomial",
                "2nd order polynomial", "3rd order polynomial">>
\* drift_cont_behaviorcombobox_key
Behaviors == <<"Extrapolate", "Constant">>
\* Qt.Unchecked and Qt.Checked
CheckStates == {0, 2}

\* the drift controls as TabDrift.__init__ leaves them: a widget is enabled
\* unless setEnabled(False) was called, a combobox shows its first item, a
\* checkbox is unchecked; item0 and item1 are the first two items of the
\* drift model type combobox
TabDriftInit ==
    [driftmethod_combobox |-> 0,
     drift_polydegree_combobox |-> 0,
     drift_cont_startendcombobox |-> 0,
     drift_plot_weighted |-> 0,
     enabled |-> [tension_slider |-> FALSE,
                  offset_slider |-> TRUE,
                  drift_polydegree_combobox |-> TRUE,
                  drift_cont_startendcombobox |-> TRUE,
                  drift_plot_hz_extent |-> TRUE,
                  drift_plot_weighted |-> TRUE,
                  item0 |-> TRUE,
                  item1 |-> TRUE]]

\* a loop as it is before the drift tab has shown it
ObsTreeLoopInit ==
    [name |-> "loop1", drift_method |-> "none", drift_cont_method |-> 0,
     drift_netadj_method |-> 2, drift_cont_startend |-> 0,
     drift_cont_weighting |-> 0, deltas |-> <<>>, tares |-> <<>>,
     stations |-> <<>>]

\* no drift-tab method called yet
NoCall == [name |-> "__init__", args |-> <<>>, ret |-> <<>>, err |-> "none"]

\* the drift tab as constructed, showing a new loop of an empty survey
InitDrift ==
    /\ drift_tab = TabDriftInit
    /\ obstreeloop = ObsTreeLoopInit
    /\ survey = [deltas |-> <<>>]
    /\ call = NoCall

\* Adjustment.__init__
Init ==
    /\ A = Empty /\ P = Empty /\ Obs = Empty
    /\ X = Empty /\ r = Empty /\ var = Empty /\ VtPV = Empty
    /\ SDaposteriori = Sqrt(Zero)
    /\ dof = 0
    /\ adjustmentoptions = AdjustmentOptionsInit
    /\ adjustmentresults = AdjustmentResultsInit
    /\ op = "__init__" /\ err = "none" /\ ret = None
    /\ n_meters = 0 /\ sta_dic_ls = EmptyDict /\ netadj_loop_keys = EmptyDict
    /\ heap = <<>> /\ adjustments = <<>>
    /\ InitDrift

\* ------------------------------------------------- the caller's inputs
\* A row of a relative observation from station i to station j, and of an
\* absolute observation of station k, in a network of ns stations
DeltaRow(i, j, ns) ==
    Tab([c \in 1..ns |-> IF c = j THEN Rat(1) ELSE IF c = i THEN Rat(-1) ELSE Zero], ns)
DatumRow(k, ns) == Tab([c \in 1..ns |-> IF c = k THEN Rat(1) ELSE Zero], ns)

\* The observed networks of ns stations: nd relative observations around the
\* loop of stations 1 -> 2 -> ... -> 1, each of weight 1, then absolute
\* observations on the stations sta[1] <= sta[2] <= ..., each of weight wa;
\* every observation has the value 0 or MaxVal.
Networks ==
    { [ns |-> ns, nd |-> nd, sta |-> sta, val |-> val, wa |-> wa] :
        ns \in 1..NStations, nd \in 0..MaxObs, wa \in {1, MaxWeight},
        sta \in UNION { [1..na -> 1..NStations] : na \in 0..MaxObs },
        val \in UNION { [1..n -> {0, MaxVal}] : n \in 1..MaxObs } }

WellFormed(net) ==
    /\ net.nd + Len(net.sta) = Len(net.val)
    /\ \A k \in 1..Len(net.sta) : net.sta[k] <= net.ns
    /\ \A k \in 1..(Len(net.sta) - 1) : net.sta[k] <= net.sta[k + 1]
    /\ net.nd > 0 => net.ns > 1

NetA(net) ==
    Tab([i \in 1..Len(net.val) |->
            IF i <= net.nd
            THEN DeltaRow(((i - 1) % net.ns) + 1, (i % net.ns) + 1, net.ns)
            ELSE DatumRow(net.sta[i - net.nd], net.ns)],
        Len(net.val))
NetP(net) ==
    Tab([i \in 1..Len(net.val) |->
            Tab([j \in 1..Len(net.val) |->
                    IF i # j THEN Zero ELSE IF i <= net.nd THEN Rat(1) ELSE Rat(net.wa)],
                Len(net.val))],
        Len(net.val))
NetObs(net) == Tab([i \in 1..Len(net.val) |-> <<Rat(net.val[i])>>], Len(net.val))

\* d + 1 absolute observations of one station, the last one of value v
Repeated(d, v) ==
    [ns |-> 1, nd |-> 0, wa |-> 1, sta |-> Tab([k \in 1..(d + 1) |-> 1], d + 1),
     val |-> Tab([k \in 1..(d + 1) |-> IF k = d + 1 THEN v ELSE 0], d + 1)]

\* The caller fills a new Adjustment: A, P, Obs, dof = rows - columns
AssignInputs ==
    /\ A = Empty
    /\ \E net \in Networks :
        /\ WellFormed(net)
        /\ A' = NetA(net) /\ P' = NetP(net) /\ Obs' = NetObs(net)
        /\ dof' = Len(net.val) - net.ns
    /\ op' = "assign" /\ err' = "none" /\ ret' = None
    /\ UNCHANGED <<X, r, VtPV, SDaposteriori, var, adjustmentoptions, adjustmentresults>>
    /\ UNCHANGED <<report_vars, heap_vars, drift_vars>>

\* The caller leaves out the last observation and rebuilds the matrices
ExcludeObservation ==
    /\ NRows(A) > 1
    /\ LET n == NRows(A) - 1
       IN  /\ A' = SubSeq(A, 1, n)
           /\ P' = Tab([i \in 1..n |-> SubSeq(P[i], 1, n)], n)
           /\ Obs' = SubSeq(Obs, 1, n)
           /\ dof' = n - NCols(A)
    /\ op' = "assign" /\ err' = "none" /\ ret' = None
    /\ UNCHANGED <<X, r, VtPV, SDaposteriori, var, adjustmentoptions, adjustmentresults>>
    /\ UNCHANGED <<report_vars, heap_vars, drift_vars>>

\* ---------------------------------------------- python_lsq_inversion
At(a) == Transpose(a)
\* N = At.dot(self.P).dot(self.A)
N(a, p) == Dot(Dot(At(a), p), a)
\* mutant: the weights left out of the right-hand side
solve_X_unweighted(n, a, p, obs) == Dot(Dot(Inv(n), At(a)), obs)
\* np.linalg.inv(N).dot(At).dot(self.P).dot(self.Obs)
solve_X(n, a, p, obs) == Dot(Dot(Dot(Inv(n), At(a)), p), obs)
\* mutant: observed minus computed
solve_r_reversed(a, x, obs) == MatSub(obs, Dot(a, x))
\* self.A.dot(self.X) - self.Obs
solve_r(a, x, obs) == MatSub(Dot(a, x), obs)
\* mutant: the unweighted sum of squares
solve_VtPV_unweighted(rr, p) == Dot(Transpose(rr), rr)
\* rt.dot(self.P).dot(self.r)
solve_VtPV(rr, p) == Dot(Dot(Transpose(rr), p), rr)
\* self.VtPV / self.dof: an array over an int, so dof = 0 gives nan or inf
var_post_norm(v, d) == Div(v[1][1], Rat(d))
\* mutant: the inverse not scaled by the variance of unit weight
cov_post_unscaled(n, vpn) == Inv(n)
\* np.linalg.inv(N) * var_post_norm
cov_post(n, vpn) == Scalar(Inv(n), vpn)

Raise(name, e) == op' = name /\ err' = e /\ ret' = None
Return(name, v) == op' = name /\ err' = "none" /\ ret' = v

\* the assignments of python_lsq_inversion once X, r and VtPV are computed
assign_from_VtPV(n, x, rr, v, vpn) ==
    /\ X' = x
    /\ r' = rr
    /\ VtPV' = v
    /\ SDaposteriori' = Sqrt(vpn)
    /\ var' = Diagonal(cov_post(n, vpn))
assign_from_r(n, x, rr, v) == assign_from_VtPV(n, x, rr, v, var_post_norm(v, dof))
assign_from_X(n, x, rr) == assign_from_r(n, x, rr, solve_VtPV(rr, P))
assign_from_N(n, x) == assign_from_X(n, x, solve_r(A, x, Obs))

\* mutant: a guard that refuses a network without redundancy
invert_and_assign_guarded(n) ==
    IF dof <= 0 \/ ~Invertible(n)
    THEN /\ Raise("python_lsq_inversion", IF dof <= 0 THEN "ValueError" ELSE "LinAlgError")
         /\ UNCHANGED <<A, P, Obs, dof, X, r, VtPV, SDaposteriori, var,
                        adjustmentoptions, adjustmentresults>>
    ELSE /\ assign_from_N(n, solve_X(n, A, P, Obs))
         /\ Return("python_lsq_inversion", None)
         /\ UNCHANGED <<A, P, Obs, dof, adjustmentoptions, adjustmentresults>>
\* the method from line 224 on, n being N
invert_and_assign(n) ==
    IF ~Invertible(n)
    THEN \* np.linalg.inv raises before anything is assigned
         /\ Raise("python_lsq_inversion", "LinAlgError")
         /\ UNCHANGED <<A, P, Obs, dof, X, r, VtPV, SDaposteriori, var,
                        adjustmentoptions, adjustmentresults>>
    ELSE /\ assign_from_N(n, solve_X(n, A, P, Obs))
         /\ Return("python_lsq_inversion", None)
         /\ UNCHANGED <<A, P, Obs, dof, adjustmentoptions, adjustmentresults>>

python_lsq_inversion == invert_and_assign(N(A, P)) /\ UNCHANGED <<report_vars, heap_vars, drift_vars>>

\* ----------------------------------------------------- lsq_statistics
\* t = np.sqrt(2 * np.log(1 / alpha)), in fixed point
t_of(alpha) == FSqrt(2 * FLn((alpha[2] * Scale) \div alpha[1]))
\* chi_1_alpha = t - (2.515517 + 0.802853 t + 0.010328 t^2)
\*                   / (1 + 1.432788 t + 0.189269 t^2 + 0.001308 t^3)
chi_1_alpha(alpha) ==
    LET t  == t_of(alpha)
        t2 == FMul(t, t)
        t3 == FMul(t2, t)
    IN  t - FDiv(Coef(2515517) + FMul(Coef(802853), t) + FMul(Coef(10328), t2),
                 Scale + FMul(Coef(1432788), t) + FMul(Coef(189269), t2)
                       + FMul(Coef(1308), t3))
\* mutant: the critical value per degree of freedom
chi2c_of_reduced(z, d) ==
    IF d < 0 THEN NaN
    ELSE LET q    == (2 * Scale) \div (9 * d)
             base == FMul(z, FSqrt(q)) + Scale - q
         IN  Norm(FMul(FMul(base, base), base), Scale)
\* dof * (chi_1_alpha * np.sqrt(2 / (9 * dof)) + 1 - 2.0 / (9 * dof)) ** 3 for
\* dof # 0; np.sqrt of a negative number is nan
chi2c_of(z, d) ==
    IF d < 0 THEN NaN
    ELSE LET q    == (2 * Scale) \div (9 * d)
             base == FMul(z, FSqrt(q)) + Scale - q
         IN  Norm(d * FMul(FMul(base, base), base), Scale)

\* mutant: chi2 taken per degree of freedom
statistics_reduced_chi2(res, v, d, alpha) ==
    [res EXCEPT !.chi2 = Div(v[1][1], Rat(d)), !.dof = Set(d),
                !.chi2c = chi2c_of(chi_1_alpha(alpha), d)]
\* adjustmentresults after lines 238-247 for dof # 0
statistics(res, v, d, alpha) ==
    [res EXCEPT !.chi2 = v[1][1], !.dof = Set(d),
                !.chi2c = chi2c_of(chi_1_alpha(alpha), d)]
\* adjustmentresults when line 246 raises: chi2 and dof are assigned by then
statistics_dof0(res, v, d) == [res EXCEPT !.chi2 = v[1][1], !.dof = Set(d)]

lsq_statistics ==
    /\ IF VtPV = Empty
       THEN \* self.VtPV[0][0] on np.array([])
            /\ Raise("lsq_statistics", "IndexError")
            /\ UNCHANGED adjustmentresults
       ELSE IF dof = 0
       THEN \* 2 / (9 * dof) with dof = 0.0
            /\ adjustmentresults' = statistics_dof0(adjustmentresults, VtPV, dof)
            /\ Raise("lsq_statistics", "ZeroDivisionError")
       ELSE /\ adjustmentresults' =
                   statistics(adjustmentresults, VtPV, dof, adjustmentoptions.alpha)
            /\ Return("lsq_statistics", None)
    /\ UNCHANGED <<A, P, Obs, dof, X, r, VtPV, SDaposteriori, var, adjustmentoptions>>
    /\ UNCHANGED <<report_vars, heap_vars, drift_vars>>

\* --------------------------------------- AdjustmentResults.get_report
RECURSIVE Decimals(_, _, _, _)
\* the first k decimals of rem/d as an integer, then rounded half to even on
\* the remainder; acc holds the digits so far
Decimals(rem, d, k, acc) ==
    IF k = 0
    THEN IF 2 * rem > d \/ (2 * rem = d /\ acc % 2 = 1) THEN acc + 1 ELSE acc
    ELSE Decimals((rem * 10) % d, d, k - 1, acc * 10 + (rem * 10) \div d)

\* format(x, '.kf'): the text of a float, as its sign and its value in units
\* of 10^-k, or nan / inf
Fmt(x, k) ==
    IF IsNaN(x) THEN [text |-> "nan", units |-> 0]
    ELSE IF ~IsFinite(x) THEN [text |-> IF x[1] > 0 THEN "inf" ELSE "-inf", units |-> 0]
    ELSE LET n == Abs(x[1])
         IN  [text |-> "number",
              units |-> Sign(x[1]) * Decimals(n % x[2], x[2], k, n \div x[2])]
FmtInt(i) == [text |-> "number", units |-> i]
FmtStr(s) == [text |-> s, units |-> 0]
Line(label, v) == [label |-> label, value |-> v]

\* mutant: accepted up to and including the critical value
chi_result_inclusive(res) == IF Lt(res.chi2c, res.chi2) THEN "rejected" ELSE "accepted"
chi_result(res) == IF Lt(res.chi2, res.chi2c) THEN "accepted" ELSE "rejected"

\* mutant: chi2 printed without the division by dof
sd_a_posteriori_undivided(res) == res.chi2
\* the value on the "SD a posteriori" line: self.chi2 / self.dof
sd_a_posteriori(res) == Div(res.chi2, Rat(res.dof[1]))

\* the 12 lines of the report, for results whose dof was assigned
report_text(res) ==
    << Line("Number of unknowns", FmtInt(res.n_unknowns)),
       Line("Number of relative observations", FmtInt(res.n_deltas)),
       Line("Number of absolute observations", FmtInt(res.n_datums)),
       Line("Degrees of freedom (nobs-nunknowns)", FmtInt(res.dof[1])),
       Line("SD a posteriori", Fmt(sd_a_posteriori(res), 6)),
       Line("chi square value", Fmt(res.chi2, 2)),
       Line("critical chi square value", Fmt(res.chi2c, 2)),
       Line("Chi-test", FmtStr(chi_result(res))),
       Line("Average standard deviation", Fmt(res.avg_stdev, 2)),
       Line("Maximum delta residual", Fmt(res.max_dg_residual, 2)),
       Line("Maximum absolute datum residual", Fmt(res.max_datum_residual, 2)),
       Line("Minimum absolute datum residual", Fmt(res.min_datum_residual, 2)) >>

get_report ==
    /\ IF adjustmentresults.dof = Unset
       THEN Raise("get_report", "AttributeError")
       ELSE Return("get_report", List(report_text(adjustmentresults)))
    /\ UNCHANGED <<A, P, Obs, dof, X, r, VtPV, SDaposteriori, var,
                   adjustmentoptions, adjustmentresults>>
    /\ UNCHANGED <<report_vars, heap_vars, drift_vars>>

Next ==
    \/ AssignInputs
    \/ ExcludeObservation
    \/ python_lsq_inversion
    \/ lsq_statistics
    \/ get_report

Spec == Init /\ [][Next]_vars

\* ------------------------------------------ Adjustment.results_string
\* [x + '\n' for x in self.adjustmentresults.text]
text_lines(text) == Tab([i \in 1..Len(text) |-> <<text[i], "\n">>], Len(text))

\* one line per item of cal_dic
cal_lines(cal_dic) ==
    Tab([i \in 1..Len(cal_dic) |->
            Line("Calibration coefficient for meter",
                 [meter |-> cal_dic[i][1], coef |-> Fmt(cal_dic[i][2][1], 6),
                  sd |-> Fmt(cal_dic[i][2][2], 6)])],
        Len(cal_dic))

\* the row of X holding term i (from 0) of a loop whose terms start at start
drift_row(start, i) == Len(sta_dic_ls) + n_meters + start + i + 1

\* the units after a coefficient: none when the coefficient read from X,
\* which the code names degree, equals 1
drift_unit(i, degree) == IF degree = Rat(1) THEN "" ELSE "(uGal/day)"

drift_line(i, degree) ==
    Line("Drift coefficient, degree",
         [degree |-> i + 1, value |-> Fmt(degree, 3), unit |-> drift_unit(i, degree)])

\* the lines of one item of netadj_loop_keys: its name, then its terms
loop_lines(loop) ==
    <<Line("Loop", FmtStr(loop[1]))>>
    \o Tab([k \in 1..loop[2][2] |-> drift_line(k - 1, X[drift_row(loop[2][1], k - 1)][1])],
           loop[2][2])

RECURSIVE all_loop_lines(_, _)
all_loop_lines(loops, n) ==
    IF n = 0 THEN <<>> ELSE all_loop_lines(loops, n - 1) \o loop_lines(loops[n])

drift_lines(loops) ==
    IF loops = EmptyDict THEN <<>>
    ELSE <<Line("Network adjustment drift coefficient(s):", FmtStr(""))>>
         \o all_loop_lines(loops, Len(loops))

\* some term of some loop lies beyond the rows of X
drift_out_of_range(loops) ==
    \E n \in 1..Len(loops) : \E i \in 0..(loops[n][2][2] - 1) :
        drift_row(loops[n][2][1], i) > NRows(X)

\* mutant: the structured report taken before the text
results_string_structured_first ==
    /\ IF adjustmentresults.n_unknowns > 0 /\ adjustmentresults.dof # Unset
       THEN Return("results_string", List(report_text(adjustmentresults)))
       ELSE IF adjustmentresults.text # <<>>
       THEN Return("results_string", List(text_lines(adjustmentresults.text)))
       ELSE Return("results_string", None)
    /\ UNCHANGED <<A, P, Obs, dof, X, r, VtPV, SDaposteriori, var,
                   adjustmentoptions, adjustmentresults, report_vars, heap_vars,
                   drift_vars>>

results_string ==
    /\ IF adjustmentresults.text # <<>>
       THEN Return("results_string", List(text_lines(adjustmentresults.text)))
       ELSE IF adjustmentresults.n_unknowns > 0
       THEN IF adjustmentresults.dof = Unset
            THEN \* get_report raises AttributeError, caught at line 204
                 Return("results_string", EmptyStr)
            ELSE IF ~adjustmentoptions.cal_coeff /\ adjustmentoptions.specify_cal_coeff
            THEN \* AdjustmentResults has no attribute meter_cal_dict: caught
                 Return("results_string", EmptyStr)
            ELSE IF drift_out_of_range(netadj_loop_keys)
            THEN Raise("results_string", "IndexError")
            ELSE Return("results_string",
                        List(report_text(adjustmentresults)
                             \o (IF adjustmentoptions.cal_coeff
                                 THEN cal_lines(adjustmentresults.cal_dic) ELSE <<>>)
                             \o drift_lines(netadj_loop_keys)))
       ELSE \* neither branch is taken: the method ends without a return
            Return("results_string", None)
    /\ UNCHANGED <<A, P, Obs, dof, X, r, VtPV, SDaposteriori, var,
                   adjustmentoptions, adjustmentresults, report_vars, heap_vars,
                   drift_vars>>

\* ----------------------------------------- the callers of the report
\* The adjusted networks with a report: one station, nm meters whose
\* calibration coefficient is solved for, and one loop with a drift term for
\* every entry of c
ReportLayouts ==
    { [nm |-> nm, c |-> c] :
        nm \in 0..1, c \in UNION { [1..n -> {1, MaxCoef}] : n \in 0..MaxDegree } }
NUnknowns(lay) == 1 + lay.nm + Len(lay.c)
\* the observed value of unknown k: 0 for the station, 1 for the meter, c for
\* the drift terms
Observed(lay, k) ==
    IF k = 1 THEN 0 ELSE IF k <= 1 + lay.nm THEN 1 ELSE lay.c[k - 1 - lay.nm]
\* the station observed twice, then every other unknown observed once
Direct(lay) ==
    [ns |-> NUnknowns(lay), nd |-> 0, wa |-> 1,
     sta |-> Tab([i \in 1..(NUnknowns(lay) + 1) |-> IF i = 1 THEN 1 ELSE i - 1],
                 NUnknowns(lay) + 1),
     val |-> Tab([i \in 1..(NUnknowns(lay) + 1) |->
                     Observed(lay, IF i = 1 THEN 1 ELSE i - 1)],
                 NUnknowns(lay) + 1)]

\* The caller fills a new Adjustment for a network with drift terms
AssignReportInputs ==
    /\ A = Empty
    /\ \E lay \in ReportLayouts :
        /\ A' = NetA(Direct(lay)) /\ P' = NetP(Direct(lay)) /\ Obs' = NetObs(Direct(lay))
        /\ dof' = 1
        /\ n_meters' = lay.nm
        /\ sta_dic_ls' = <<<<"station1", <<>>>>>>
        /\ netadj_loop_keys' =
              IF Len(lay.c) = 0 THEN EmptyDict ELSE <<<<"loop1", <<0, Len(lay.c)>>>>>>
    /\ op' = "assign" /\ err' = "none" /\ ret' = None
    /\ UNCHANGED <<X, r, VtPV, SDaposteriori, var, adjustmentoptions, adjustmentresults>>
    /\ UNCHANGED <<heap_vars, drift_vars>>

\* After the inversion the caller stores the counts of the adjustment, and
\* the solved calibration coefficient of a meter, in the results
StoreResults ==
    /\ X # Empty /\ adjustmentresults.n_unknowns = 0
    /\ adjustmentresults' =
          [adjustmentresults EXCEPT
              !.n_unknowns = NCols(A), !.n_datums = NRows(A),
              !.cal_dic = IF n_meters > 0
                          THEN <<<<"meter1", <<X[Len(sta_dic_ls) + 1][1],
                                               var[Len(sta_dic_ls) + 1]>>>>>>
                          ELSE EmptyDict]
    /\ op' = "store" /\ err' = "none" /\ ret' = None
    /\ UNCHANGED <<A, P, Obs, dof, X, r, VtPV, SDaposteriori, var, adjustmentoptions>>
    /\ UNCHANGED <<report_vars, heap_vars, drift_vars>>

\* the report an external solver writes
TextReport == <<"line1", "line2">>
\* The caller stores the report of an external solver
SetText ==
    /\ adjustmentresults.text = <<>>
    /\ adjustmentresults' = [adjustmentresults EXCEPT !.text = TextReport]
    /\ op' = "set_text" /\ err' = "none" /\ ret' = None
    /\ UNCHANGED <<A, P, Obs, dof, X, r, VtPV, SDaposteriori, var, adjustmentoptions>>
    /\ UNCHANGED <<report_vars, heap_vars, drift_vars>>

\* The options dialog stores the calibration options before the adjustment
SetCalOptions ==
    /\ A = Empty
    /\ \E cal \in BOOLEAN, spec \in BOOLEAN :
        adjustmentoptions' =
            [adjustmentoptions EXCEPT
                !.cal_coeff = cal, !.specify_cal_coeff = spec,
                !.meter_cal_dict = IF spec THEN Set(<<<<"meter1", Rat(1)>>>>) ELSE Unset]
    /\ op' = "set_options" /\ err' = "none" /\ ret' = None
    /\ UNCHANGED <<A, P, Obs, dof, X, r, VtPV, SDaposteriori, var, adjustmentresults>>
    /\ UNCHANGED <<report_vars, heap_vars, drift_vars>>

NextReport ==
    \/ SetCalOptions
    \/ AssignReportInputs
    \/ python_lsq_inversion
    \/ lsq_statistics
    \/ StoreResults
    \/ SetText
    \/ results_string

SpecReport == Init /\ [][NextReport]_vars

\* ------------------------------------ Adjustment instances as objects
\* A mutable object (a dict, a list, an AdjustmentOptions, an
\* AdjustmentResults) lives at an address of heap, a position in the sequence;
\* an instance refers to it by that address.  The ndarrays of an instance are
\* only ever rebound to new arrays by its methods and are held by value.
Obj(kind, val) == [kind |-> kind, val |-> val]

\* mutant: one object per attribute name, shared by every instance (a class
\* attribute, or a mutable default argument)
Alloc_shared(h, name) ==
    IF \E a \in 1..Len(h) : h[a].kind = name
    THEN CHOOSE a \in 1..Len(h) : h[a].kind = name
    ELSE Len(h) + 1
\* the address of an object created for the attribute name: a new one
Alloc(h, name) == Len(h) + 1
\* the heap once obj is created at address a; an object that exists is kept
Store(h, a, obj) == IF a = Len(h) + 1 THEN Append(h, obj) ELSE h

\* the objects __init__ creates, in the order of creation: those of
\* Adjustment.__init__ (lines 148-155), then those of
\* AdjustmentResults.__init__ (lines 34-35)
Created ==
    << "meter_dic", "deltas", "datums", "g_dic", "sd_dic", "netadj_loop_keys",
       "sta_dic_ls", "adjustmentoptions", "cal_dic", "netadj_drift_dic", "text" >>
InitialValue(name) == IF name = "adjustmentoptions" THEN AdjustmentOptionsInit ELSE <<>>

RECURSIVE CreateAll(_, _)
\* the heap after the first n objects of Created are created on h
CreateAll(h, n) ==
    IF n = 0 THEN h
    ELSE Store(CreateAll(h, n - 1), Alloc(CreateAll(h, n - 1), Created[n]),
               Obj(Created[n], InitialValue(Created[n])))
\* the address given to the n-th object of Created
AddressOf(h, n) == Alloc(CreateAll(h, n - 1), Created[n])

\* the AdjustmentResults made on the heap h, its dicts and its list created
\* after the objects of the Adjustment
NewResults(h) ==
    Obj("adjustmentresults",
        [AdjustmentResultsInit EXCEPT
            !.cal_dic = AddressOf(h, 9), !.netadj_drift_dic = AddressOf(h, 10),
            !.text = AddressOf(h, 11)])
\* the heap after Adjustment.__init__ on the heap h
HeapAfterInit(h, hc) == Store(hc, Alloc(hc, "adjustmentresults"), NewResults(h))
\* the instance Adjustment.__init__ makes on the heap h; stage tells which
\* results are those of the instance's current inputs
NewAdjustment(h, hc) ==
    [A |-> Empty, P |-> Empty, Obs |-> Empty, X |-> Empty, r |-> Empty,
     var |-> Empty, VtPV |-> Empty, SDaposteriori |-> Sqrt(Zero), dof |-> 0,
     n_meters |-> 0,
     meter_dic |-> AddressOf(h, 1), deltas |-> AddressOf(h, 2),
     datums |-> AddressOf(h, 3), g_dic |-> AddressOf(h, 4), sd_dic |-> AddressOf(h, 5),
     netadj_loop_keys |-> AddressOf(h, 6), sta_dic_ls |-> AddressOf(h, 7),
     adjustmentoptions |-> AddressOf(h, 8),
     adjustmentresults |-> Alloc(hc, "adjustmentresults"),
     stage |-> "none"]

\* two Adjustment objects constructed one after the other
FirstHeap == HeapAfterInit(<<>>, CreateAll(<<>>, Len(Created)))
InitInstances ==
    /\ adjustments = << NewAdjustment(<<>>, CreateAll(<<>>, Len(Created))),
                        NewAdjustment(FirstHeap, CreateAll(FirstHeap, Len(Created))) >>
    /\ heap = HeapAfterInit(FirstHeap, CreateAll(FirstHeap, Len(Created)))
    /\ A = Empty /\ P = Empty /\ Obs = Empty
    /\ X = Empty /\ r = Empty /\ var = Empty /\ VtPV = Empty
    /\ SDaposteriori = Sqrt(Zero)
    /\ dof = 0
    /\ adjustmentoptions = AdjustmentOptionsInit
    /\ adjustmentresults = AdjustmentResultsInit
    /\ op = "__init__" /\ err = "none" /\ ret = None
    /\ n_meters = 0 /\ sta_dic_ls = EmptyDict /\ netadj_loop_keys = EmptyDict
    /\ InitDrift

\* the variables that hold the single Adjustment of the other specifications
flat_vars == <<A, P, Obs, dof, X, r, VtPV, SDaposteriori, var,
               adjustmentoptions, adjustmentresults, op, err, ret, report_vars,
               drift_vars>>

Instances == 1..Len(adjustments)
\* the networks an instance is filled with: one station observed twice
InstanceNets == { Repeated(1, 0), Repeated(1, MaxVal) }

\* the instance with the inputs of net
filled(adj, net) ==
    [adj EXCEPT !.A = NetA(net), !.P = NetP(net), !.Obs = NetObs(net),
                !.dof = Len(net.val) - net.ns, !.stage = "none"]
\* The caller fills a new instance
AssignInstance ==
    /\ \E i \in Instances, net \in InstanceNets :
        /\ adjustments[i].A = Empty
        /\ adjustments' = [adjustments EXCEPT ![i] = filled(@, net)]
    /\ UNCHANGED <<heap, flat_vars>>
\* The caller rebuilds the matrices of an instance that was filled before
RebuildInstance ==
    /\ \E i \in Instances, net \in InstanceNets :
        /\ adjustments[i].A # Empty
        /\ adjustments' = [adjustments EXCEPT ![i] = filled(@, net)]
    /\ UNCHANGED <<heap, flat_vars>>

\* the instance after the assignments of python_lsq_inversion
with_outputs(adj, n, x, rr, v, vpn) ==
    [adj EXCEPT !.X = x, !.r = rr, !.VtPV = v, !.SDaposteriori = Sqrt(vpn),
                !.var = Diagonal(cov_post(n, vpn))]
with_VtPV(adj, n, x, rr, v) == with_outputs(adj, n, x, rr, v, var_post_norm(v, adj.dof))
with_r(adj, n, x, rr) == with_VtPV(adj, n, x, rr, solve_VtPV(rr, adj.P))
with_X(adj, n, x) == with_r(adj, n, x, solve_r(adj.A, x, adj.Obs))
\* mutant: an instance that holds a solution keeps it
solved_keeps(adj, n) ==
    IF ~Invertible(n) \/ adj.X # Empty THEN adj
    ELSE with_X(adj, n, solve_X(n, adj.A, adj.P, adj.Obs))
\* the instance after python_lsq_inversion, n being N: unchanged when
\* np.linalg.inv raises
solved(adj, n) ==
    IF ~Invertible(n) THEN adj ELSE with_X(adj, n, solve_X(n, adj.A, adj.P, adj.Obs))

inst_python_lsq_inversion ==
    /\ \E i \in Instances :
        adjustments' =
            [adjustments EXCEPT
                ![i] = [solved(@, N(@.A, @.P)) EXCEPT
                           !.stage = IF Invertible(N(adjustments[i].A, adjustments[i].P))
                                     THEN "solved" ELSE @]]
    /\ UNCHANGED <<heap, flat_vars>>

\* the heap after lsq_statistics on the instance adj: the AdjustmentResults
\* object is changed in place
heap_statistics(h, adj) ==
    IF adj.VtPV = Empty THEN h
    ELSE IF adj.dof = 0
    THEN [h EXCEPT ![adj.adjustmentresults].val = statistics_dof0(@, adj.VtPV, adj.dof)]
    ELSE [h EXCEPT ![adj.adjustmentresults].val =
                      statistics(@, adj.VtPV, adj.dof, h[adj.adjustmentoptions].val.alpha)]

inst_lsq_statistics ==
    /\ \E i \in Instances :
        /\ heap' = heap_statistics(heap, adjustments[i])
        /\ adjustments' =
              [adjustments EXCEPT
                  ![i].stage = IF @ = "solved" /\ adjustments[i].dof # 0 THEN "stats" ELSE @]
    /\ UNCHANGED flat_vars

\* the dicts of an instance and of its results
Dicts == {"meter_dic", "g_dic", "sd_dic", "netadj_loop_keys", "cal_dic", "netadj_drift_dic"}
\* the address an instance reaches the dict name by
DictAddress(h, adj, name) ==
    IF name \in {"cal_dic", "netadj_drift_dic"}
    THEN h[adj.adjustmentresults].val[name]
    ELSE adj[name]
NItems == Cardinality({ a \in 1..Len(heap) : heap[a].kind \in Dicts /\ heap[a].val # <<>> })
\* The caller puts an item into a dict of an instance: d[key] = value
PutItem ==
    /\ NItems < MaxItems
    /\ \E i \in Instances, name \in Dicts :
        /\ heap[DictAddress(heap, adjustments[i], name)].val = <<>>
        /\ heap' = [heap EXCEPT ![DictAddress(heap, adjustments[i], name)].val =
                                   <<<<"key", 1>>>>]
    /\ UNCHANGED <<adjustments, flat_vars>>

\* The options dialog stores the significance level in the options of an
\* instance; statistics computed before are no longer those of the inputs
SetInstanceAlpha ==
    /\ \E i \in Instances, a \in {<<1, 20>>, <<1, 100>>} :
        /\ heap[adjustments[i].adjustmentoptions].val.alpha # a
        /\ heap' = [heap EXCEPT ![adjustments[i].adjustmentoptions].val.alpha = a]
        /\ adjustments' =
              [adjustments EXCEPT ![i].stage = IF @ = "stats" THEN "solved" ELSE @]
    /\ UNCHANGED flat_vars

NextInstances ==
    \/ AssignInstance
    \/ inst_python_lsq_inversion
    \/ inst_lsq_statistics
    \/ PutItem
    \/ SetInstanceAlpha

SpecInstances == InitInstances /\ [][NextInstances]_vars

NextRerun ==
    \/ AssignInstance
    \/ RebuildInstance
    \/ inst_python_lsq_inversion
    \/ inst_lsq_statistics
    \/ SetInstanceAlpha

SpecRerun == InitInstances /\ [][NextRerun]_vars

\* --------------------------------- the critical value over dof and alpha
\* the significance levels the options dialog is given
Alphas == { <<1, 2>>, <<1, 10>>, <<1, 20>>, <<1, 100>> }

\* The caller fills a new Adjustment with a repeated observation
AssignRepeated ==
    /\ A = Empty
    /\ \E d \in 1..MaxDof, v \in {0, MaxVal} :
        /\ A' = NetA(Repeated(d, v)) /\ P' = NetP(Repeated(d, v))
        /\ Obs' = NetObs(Repeated(d, v))
        /\ dof' = d
    /\ op' = "assign" /\ err' = "none" /\ ret' = None
    /\ UNCHANGED <<X, r, VtPV, SDaposteriori, var, adjustmentoptions, adjustmentresults>>
    /\ UNCHANGED <<report_vars, heap_vars, drift_vars>>

\* The options dialog stores the significance level
SetAlpha ==
    /\ \E a \in Alphas : adjustmentoptions' = [adjustmentoptions EXCEPT !.alpha = a]
    /\ op' = "set_alpha" /\ err' = "none" /\ ret' = None
    /\ UNCHANGED <<A, P, Obs, dof, X, r, VtPV, SDaposteriori, var, adjustmentresults>>
    /\ UNCHANGED <<report_vars, heap_vars, drift_vars>>

NextChi2c ==
    \/ AssignRepeated
    \/ SetAlpha
    \/ python_lsq_inversion
    \/ lsq_statistics

SpecChi2c == Init /\ [][NextChi2c]_vars

\* ------------------------------------- TabDrift: the drift controls
\* the rest of the model leaves the drift tab alone and the drift tab
\* leaves the rest alone
adjustment_vars == <<A, P, Obs, dof, X, r, VtPV, SDaposteriori, var,
                     adjustmentoptions, adjustmentresults, op, err, ret,
                     report_vars, heap_vars>>

\* setEnabled(flags[w]) on every control w that flags names
SetEnabled(t, flags) ==
    [t EXCEPT !.enabled = [w \in DOMAIN t.enabled |->
                              IF w \in DOMAIN flags THEN flags[w] ELSE t.enabled[w]]]

disable_weighted_checkbox(t) == SetEnabled(t, [drift_plot_weighted |-> FALSE])
enable_weighted_checkbox(t) == SetEnabled(t, [drift_plot_weighted |-> TRUE])

\* mutant: the items of the model type combobox are left as they were
drift_adjust_items_kept(t) ==
    SetEnabled(t, [tension_slider |-> FALSE,
                   drift_polydegree_combobox |-> TRUE,
                   drift_cont_startendcombobox |-> FALSE,
                   drift_plot_hz_extent |-> FALSE,
                   drift_plot_weighted |-> FALSE])

drift_adjust(t) ==
    SetEnabled(t, [tension_slider |-> FALSE, item0 |-> FALSE, item1 |-> FALSE,
                   drift_polydegree_combobox |-> TRUE,
                   drift_cont_startendcombobox |-> FALSE,
                   drift_plot_hz_extent |-> FALSE,
                   drift_plot_weighted |-> FALSE])

drift_roman(t) ==
    SetEnabled(t, [tension_slider |-> FALSE, offset_slider |-> FALSE,
                   drift_plot_hz_extent |-> FALSE,
                   drift_plot_weighted |-> FALSE,
                   drift_cont_startendcombobox |-> FALSE,
                   drift_polydegree_combobox |-> FALSE])

drift_continuous(t) ==
    SetEnabled(t, [item0 |-> TRUE, item1 |-> TRUE,
                   tension_slider |-> TRUE, offset_slider |-> TRUE,
                   drift_plot_hz_extent |-> TRUE,
                   drift_cont_startendcombobox |-> TRUE,
                   drift_polydegree_combobox |-> TRUE,
                   drift_plot_weighted |-> (t.drift_polydegree_combobox = 0)])

drift_none(t) ==
    SetEnabled(t, [tension_slider |-> FALSE, offset_slider |-> TRUE,
                   drift_polydegree_combobox |-> FALSE,
                   drift_cont_startendcombobox |-> FALSE,
                   drift_plot_hz_extent |-> FALSE,
                   drift_plot_weighted |-> FALSE])

\* set_drift_method, the branch taken when update is true: the controls
\* are set for the method, from the choices the loop remembers
show_method(t, l, method) ==
    IF method = "none" THEN disable_weighted_checkbox(drift_none(t))
    ELSE IF method = "netadj"
    THEN disable_weighted_checkbox(
             drift_adjust([t EXCEPT !.drift_polydegree_combobox = l.drift_netadj_method]))
    ELSE IF method = "roman" THEN disable_weighted_checkbox(drift_roman(t))
    ELSE drift_continuous(
             [t EXCEPT !.drift_polydegree_combobox = l.drift_cont_method,
                       !.drift_cont_startendcombobox = l.drift_cont_startend,
                       !.drift_plot_weighted = l.drift_cont_weighting])

\* ------------------------------------------ TabDrift: the delta-g's
\* DeltaNormal(sta1, sta2, driftcorr=..., ls_drift=..., loop=...): the object
\* holds the arguments it was given; an occupation is held as its row in the
\* loop, so two deltas are the same object exactly when they are equal
DeltaNormal(sta1, sta2, driftcorr, ls_drift, loop) ==
    [form |-> "obj", station1 |-> sta1, station2 |-> sta2,
     driftcorr |-> driftcorr, ls_drift |-> ls_drift, loop |-> loop]
\* ls_drift of a DeltaNormal that was not given one
NoLsDrift == <<>>

\* mutant: deltas.append(delta)
RECURSIVE successive_dg_appended(_, _, _, _, _)
successive_dg_appended(prev_station, data, ls_drift, loop_name, deltas) ==
    IF data = <<>> THEN deltas
    ELSE successive_dg_appended(Head(data), Tail(data), ls_drift, loop_name,
             deltas \o
             <<DeltaNormal(prev_station, Head(data), Zero, ls_drift, loop_name)>>)

\* the for loop of calc_none_dg and calc_netadj_dg: deltas.insert(0, delta)
RECURSIVE successive_dg(_, _, _, _, _)
successive_dg(prev_station, data, ls_drift, loop_name, deltas) ==
    IF data = <<>> THEN deltas
    ELSE successive_dg(Head(data), Tail(data), ls_drift, loop_name,
             <<DeltaNormal(prev_station, Head(data), Zero, ls_drift, loop_name)>>
                 \o deltas)

calc_none_dg(data, loop_name) ==
    IF data = <<>> THEN <<>>
    ELSE successive_dg(Head(data), Tail(data), NoLsDrift, loop_name, <<>>)

\* polydegree is drift_polydegree_combobox.currentIndex()
calc_netadj_dg(data, loop_name, polydegree) ==
    IF data = <<>> THEN <<>>
    ELSE successive_dg(Head(data), Tail(data), <<loop_name, polydegree - 1>>,
                       loop_name, <<>>)

\* ------------------------------ TabDrift.update_deltas_on_adj_tab
\* list.remove(x): the first item equal to x is removed
RECURSIVE IndexOf(_, _, _)
IndexOf(seq, x, k) ==
    IF k > Len(seq) THEN 0 ELSE IF seq[k] = x THEN k ELSE IndexOf(seq, x, k + 1)
RemoveAt(seq, k) == SubSeq(seq, 1, k - 1) \o SubSeq(seq, k + 1, Len(seq))
ListRemove(seq, x) == RemoveAt(seq, IndexOf(seq, x, 1))

\* a list iterator from the front: it holds an index k, yields the item at
\* it and steps on until k is past the end of the list
RECURSIVE remove_from_front(_, _, _)
remove_from_front(deltas, k, name) ==
    IF k > Len(deltas) THEN deltas
    ELSE IF deltas[k].loop = name
    THEN remove_from_front(ListRemove(deltas, deltas[k]), k + 1, name)
    ELSE remove_from_front(deltas, k + 1, name)
\* mutant: for delta in survey.deltas
remove_old_deltas_forward(deltas, i, name) == remove_from_front(deltas, 1, name)
\* for delta in reversed(survey.deltas): the reverse iterator holds an
\* index i that starts at the last item and steps down; it stops when i is
\* no longer an index of the list.  delta['loop'] (a dict) and delta.loop
\* (an object) are both the field loop.
RECURSIVE remove_old_deltas(_, _, _)
remove_old_deltas(deltas, i, name) ==
    IF i < 1 \/ i > Len(deltas) THEN deltas
    ELSE IF deltas[i].loop = name
    THEN remove_old_deltas(ListRemove(deltas, deltas[i]), i - 1, name)
    ELSE remove_old_deltas(deltas, i - 1, name)

\* loop_present is obstreeloop.name in survey.loops_with_deltas(); a
\* TypeError it raises is caught and leaves the survey as it is
update_deltas_on_adj_tab(sv, l, loop_present) ==
    IF loop_present
    THEN [sv EXCEPT !.deltas =
             remove_old_deltas(sv.deltas, Len(sv.deltas), l.name) \o l.deltas]
    ELSE sv

\* ------------------------------------------------ TabDrift.plot_drift
\* what plot_drift finds in the loop: plot_data is whether
\* get_data_for_plot(), after the screening, has any line; fit is how
\* drift.drift_continuous ends, which is called only when there is a line;
\* data is checked_stations(), the rows of the checked occupations in order
Fits == {"ok", "IndexError", "LinAlgError"}
LoopContents ==
    { c \in [plot_data : BOOLEAN, fit : Fits, data : {<<1, 2>>}] :
        c.plot_data \/ c.fit = "ok" }

\* the deltas drift.drift_continuous returns, one for each pair of
\* successive occupations
continuous_dg(data, loop_name) ==
    IF data = <<>> THEN <<>>
    ELSE successive_dg(Head(data), Tail(data), "continuous", loop_name, <<>>)
\* calc_roman_dg returns (roman_dg_model, avg_deltas, vert_lines)
calc_roman_dg(data, loop_name) ==
    << "roman_dg_model",
       IF Len(data) < 3 THEN <<>>
       ELSE << [form |-> "obj", station1 |-> "avg", station2 |-> "avg",
                driftcorr |-> Zero, ls_drift |-> NoLsDrift, loop |-> loop_name] >>,
       "vert_lines" >>

\* the outcome of a call: the controls, the loop, what is returned and the
\* exception raised
Outcome(t, l, value, error) == [tab |-> t, loop |-> l, ret |-> value, err |-> error]

\* plot_drift(): in the continuous branch deltas is assigned only by a
\* drift_continuous call that returns, so return deltas raises
\* UnboundLocalError when there is no plot data and when the fit fails
plot_drift(t, l, c) ==
    IF l.drift_method = "none"
    THEN Outcome(t, l, calc_none_dg(c.data, l.name), "none")
    ELSE IF l.drift_method = "netadj"
    THEN Outcome(t, l, calc_netadj_dg(c.data, l.name, t.drift_polydegree_combobox), "none")
    ELSE IF l.drift_method = "roman"
    THEN Outcome(t, l, calc_roman_dg(c.data, l.name), "none")
    ELSE IF ~c.plot_data THEN Outcome(t, l, <<>>, "UnboundLocalError")
    ELSE IF c.fit = "ok" THEN Outcome(t, l, continuous_dg(c.data, l.name), "none")
    ELSE IF c.fit = "IndexError"
    THEN Outcome([t EXCEPT !.drift_polydegree_combobox = 0], l, <<>>,
                 "UnboundLocalError")
    ELSE Outcome([t EXCEPT !.drift_polydegree_combobox = 0],
                 [l EXCEPT !.drift_cont_method = 0], <<>>, "UnboundLocalError")

\* ------------------------------------------ TabDrift.set_drift_method
\* the state a handler leaves: the controls, the loop, the survey and the
\* exception that ended it
Left(t, l, sv, error) == [tab |-> t, loop |-> l, survey |-> sv, err |-> error]

\* obstreeloop.deltas = model[1] for the Roman method, model otherwise
with_deltas(l, method, model) ==
    [l EXCEPT !.deltas = IF method = "roman" THEN model[2] ELSE model]

\* what set_drift_method does once the controls are set: p is the outcome
\* of plot_drift.  update_delta_model assigns obstreeloop.deltas the same
\* value again and fills the table views.
store_deltas(p, sv, method, update_adjust_tables, loop_present) ==
    IF p.err # "none" THEN Left(p.tab, p.loop, sv, p.err)
    ELSE Left(p.tab, with_deltas(p.loop, method, p.ret),
              IF update_adjust_tables
              THEN update_deltas_on_adj_tab(sv, with_deltas(p.loop, method, p.ret),
                                            loop_present)
              ELSE sv,
              "none")

\* set_drift_method(update, update_adjust_tables) with a loop selected;
\* c is what plot_drift finds in the loop
set_drift_method(t, l, sv, update, update_adjust_tables, c, loop_present) ==
    store_deltas(
        plot_drift(IF update
                   THEN show_method(t, [l EXCEPT !.drift_method = MethodOf(t.driftmethod_combobox)],
                                    MethodOf(t.driftmethod_combobox))
                   ELSE t,
                   [l EXCEPT !.drift_method = MethodOf(t.driftmethod_combobox)], c),
        sv, MethodOf(t.driftmethod_combobox), update_adjust_tables, loop_present)

\* parent.update_drift_tables_and_plots(): the main window shows the
\* loop's method in the drift method combobox and calls set_drift_method;
\* refresh is whether it does so
IndexOfMethod(method) == CHOOSE k \in 0..(Len(Methods) - 1) : MethodOf(k) = method
update_drift_tables_and_plots(t, l, sv, c, loop_present, refresh) ==
    IF refresh
    THEN set_drift_method([t EXCEPT !.driftmethod_combobox = IndexOfMethod(l.drift_method)],
                          l, sv, TRUE, TRUE, c, loop_present)
    ELSE Left(t, l, sv, "none")

\* drift_combobox_updated, up to its call of the main window
store_model_type(t, l) ==
    IF l.drift_method = "continuous"
    THEN Left(SetEnabled(t, [tension_slider |-> (t.drift_polydegree_combobox = 1),
                             drift_plot_weighted |-> (t.drift_polydegree_combobox = 0)]),
              [l EXCEPT !.drift_cont_method = t.drift_polydegree_combobox,
                        !.drift_cont_startend = t.drift_cont_startendcombobox],
              <<>>, "none")
    ELSE IF l.drift_method = "netadj"
    THEN Left(t, [l EXCEPT !.drift_netadj_method = t.drift_polydegree_combobox],
              <<>>, "none")
    ELSE Left(t, l, <<>>, "none")

drift_combobox_updated(t, l, sv, c, loop_present, refresh) ==
    update_drift_tables_and_plots(store_model_type(t, l).tab, store_model_type(t, l).loop,
                                  sv, c, loop_present, refresh)

\* the handler that ran and how it ended
Called(name, o) ==
    /\ drift_tab' = o.tab
    /\ obstreeloop' = o.loop
    /\ survey' = o.survey
    /\ call' = [name |-> name, args |-> <<>>, ret |-> <<>>, err |-> o.err]

\* The user picks an item of the drift method combobox: activated(index)
\* calls set_drift_method(update=index), and an int counts as True
SelectMethod ==
    /\ \E k \in 0..(Len(Methods) - 1), c \in LoopContents, loop_present \in BOOLEAN :
        Called("set_drift_method",
               set_drift_method([drift_tab EXCEPT !.driftmethod_combobox = k],
                                obstreeloop, survey, TRUE, TRUE, c, loop_present))
    /\ UNCHANGED adjustment_vars

\* The user picks an item of the drift model type combobox, which Qt
\* allows when the combobox and the item are enabled
ItemEnabled(t, k) ==
    /\ t.enabled.drift_polydegree_combobox
    /\ k = 0 => t.enabled.item0
    /\ k = 1 => t.enabled.item1
SelectModelType ==
    /\ \E k \in 0..(Len(ModelTypes) - 1), c \in LoopContents,
          loop_present \in BOOLEAN, refresh \in BOOLEAN :
        /\ ItemEnabled(drift_tab, k)
        /\ Called("drift_combobox_updated",
                  drift_combobox_updated([drift_tab EXCEPT !.drift_polydegree_combobox = k],
                                         obstreeloop, survey, c, loop_present, refresh))
    /\ UNCHANGED adjustment_vars

\* reset(): both comboboxes show their first item again; setCurrentIndex
\* does not emit activated, so no handler runs
reset ==
    /\ Called("reset",
              Left([drift_tab EXCEPT !.driftmethod_combobox = 0,
                                     !.drift_polydegree_combobox = 0],
                   obstreeloop, survey, "none"))
    /\ UNCHANGED adjustment_vars

\* plot_drift() called to redraw (offset slider, time-extent checkbox,
\* elapsed-time screening)
Replot ==
    /\ \E c \in LoopContents :
        /\ drift_tab' = plot_drift(drift_tab, obstreeloop, c).tab
        /\ obstreeloop' = plot_drift(drift_tab, obstreeloop, c).loop
        /\ call' = [name |-> "plot_drift", args |-> <<>>,
                    ret |-> plot_drift(drift_tab, obstreeloop, c).ret,
                    err |-> plot_drift(drift_tab, obstreeloop, c).err]
    /\ UNCHANGED <<survey, adjustment_vars>>

NextDriftTab ==
    \/ SelectMethod
    \/ SelectModelType
    \/ reset
    \/ Replot

\* the rest of the model as constructed
NoAdjustment ==
    /\ A = Empty /\ P = Empty /\ Obs = Empty
    /\ X = Empty /\ r = Empty /\ var = Empty /\ VtPV = Empty
    /\ SDaposteriori = Sqrt(Zero)
    /\ dof = 0
    /\ adjustmentoptions = AdjustmentOptionsInit
    /\ adjustmentresults = AdjustmentResultsInit
    /\ op = "__init__" /\ err = "none" /\ ret = None
    /\ n_meters = 0 /\ sta_dic_ls = EmptyDict /\ netadj_loop_keys = EmptyDict
    /\ heap = <<>> /\ adjustments = <<>>

InitDriftTab == NoAdjustment /\ InitDrift
SpecDriftTab == InitDriftTab /\ [][NextDriftTab]_vars

\* ------------------------- update_deltas_on_adj_tab on a filled survey
\* largest number of deltas the survey holds before the call
MaxDeltas == 3
\* the deltas a survey can hold: objects and, after a workspace was loaded,
\* dicts, of this loop and of another; the same entry may be held twice
OldDeltas ==
    { [DeltaNormal(pair[1], pair[2], Zero, NoLsDrift, loop) EXCEPT !.form = form] :
        pair \in {<<1, 2>>, <<2, 3>>}, loop \in {"loop1", "loop2"},
        form \in {"obj", "dict"} }
RECURSIVE ListsOf(_, _)
ListsOf(S, n) ==
    IF n = 0 THEN {<<>>}
    ELSE ListsOf(S, n - 1) \cup
         { Append(l, x) : l \in { m \in ListsOf(S, n - 1) : Len(m) = n - 1 }, x \in S }

InitDeltas ==
    /\ NoAdjustment
    /\ drift_tab = TabDriftInit
    /\ obstreeloop \in { [ObsTreeLoopInit EXCEPT !.deltas = d] :
                           d \in {<<>>, calc_none_dg(<<1, 2, 3>>, "loop1")} }
    /\ survey \in { [deltas |-> l] : l \in ListsOf(OldDeltas, MaxDeltas) }
    /\ call = NoCall

\* update_deltas_on_adj_tab(obstreeloop), as set_drift_method calls it;
\* args keeps the survey's deltas before the call
UpdateDeltas ==
    /\ call.name = "__init__"
    /\ \E loop_present \in BOOLEAN :
        /\ survey' = update_deltas_on_adj_tab(survey, obstreeloop, loop_present)
        /\ call' = [name |-> "update_deltas_on_adj_tab",
                    args |-> <<survey.deltas, loop_present>>,
                    ret |-> <<>>, err |-> "none"]
    /\ UNCHANGED <<drift_tab, obstreeloop, adjustment_vars>>

NextDeltas == UpdateDeltas

SpecDeltas == InitDeltas /\ [][NextDeltas]_vars

\* ------------------------------------ TabDrift.screen_for_elapsed_time
\* Times (days, as floats in the code) are held in ticks, TicksPerMinute to
\* the minute, and elapsed_time (minutes) in ticks too.
TicksPerMinute == 10
\* x_diff * 1440: the minutes in a day
MinutesPerDay == 1440
\* 0.0001 days, the distance under which two times count as the same
\* point, is one part in PartsPerDay of a day
PartsPerDay == 10000
\* largest time of a point, in ticks
MaxTime == 3
\* largest number of points of a line
MaxPoints == 4
\* largest elapsed_time, in ticks
MaxElapsed == 2

\* x_diff * 1440 < elapsed_time
WithinElapsed(x_diff, elapsed_time) == x_diff < elapsed_time
\* abs(a - b) < 0.0001
SameTime(a, b) == Abs(a - b) * PartsPerDay < MinutesPerDay * TicksPerMinute

\* the loop over the points of one line, from point i on; a line is
\* <<x, y, label>>
RECURSIVE screen_line(_, _, _, _, _, _)
screen_line(line, elapsed_time, i, new_x, new_y, new_data) ==
    IF i > Len(line[1])
    THEN IF Len(new_x) > 0 THEN Append(new_data, <<new_x, new_y, line[3]>>)
         ELSE new_data
    ELSE IF ~WithinElapsed(line[1][i] - line[1][i - 1], elapsed_time)
    THEN screen_line(line, elapsed_time, i + 1, new_x, new_y, new_data)
    ELSE IF Len(new_x) = 0
    THEN screen_line(line, elapsed_time, i + 1,
                     <<line[1][i - 1], line[1][i]>>, <<line[2][i - 1], line[2][i]>>,
                     new_data)
    ELSE IF SameTime(new_x[Len(new_x)], line[1][i - 1])
    THEN screen_line(line, elapsed_time, i + 1,
                     Append(new_x, line[1][i]), Append(new_y, line[2][i]), new_data)
    ELSE screen_line(line, elapsed_time, i + 1,
                     <<line[1][i - 1], line[1][i]>>, <<line[2][i - 1], line[2][i]>>,
                     Append(new_data, <<new_x, new_y, line[3]>>))

RECURSIVE screen_lines(_, _, _, _)
screen_lines(plot_data, elapsed_time, k, new_data) ==
    IF k > Len(plot_data) THEN new_data
    ELSE screen_lines(plot_data, elapsed_time, k + 1,
                      screen_line(plot_data[k], elapsed_time, 2, <<>>, <<>>, new_data))

screen_for_elapsed_time(plot_data, elapsed_time) ==
    screen_lines(plot_data, elapsed_time, 1, <<>>)

\* the lines of a station: the times of its occupations in the order of
\* the loop's rows, the readings (here the occupation's number) and the
\* station's name
RECURSIVE Counting(_)
Counting(n) == IF n = 0 THEN <<>> ELSE Append(Counting(n - 1), n)
StationLines ==
    { <<x, Counting(Len(x)), "A">> : x \in ListsOf(0..MaxTime, MaxPoints) }
\* a second station, occupied twice at the same time
OtherLine == << <<0, 0>>, <<1, 2>>, "B" >>

InitScreen ==
    /\ NoAdjustment
    /\ drift_tab = TabDriftInit /\ obstreeloop = ObsTreeLoopInit
    /\ survey = [deltas |-> <<>>]
    /\ \E line \in StationLines, elapsed_time \in 0..MaxElapsed :
        call = [name |-> "__init__", args |-> << <<line, OtherLine>>, elapsed_time >>,
                ret |-> <<>>, err |-> "none"]

\* plot_drift screens the plot data when the elapsed-time box is checked
Screen ==
    /\ call.name = "__init__"
    /\ call' = [call EXCEPT !.name = "screen_for_elapsed_time",
                            !.ret = screen_for_elapsed_time(call.args[1], call.args[2])]
    /\ UNCHANGED <<drift_tab, obstreeloop, survey, adjustment_vars>>

NextScreen == Screen

SpecScreen == InitScreen /\ [][NextScreen]_vars

\* ---------------------------------------------- TabDrift.process_tares
\* largest number of tares of a loop
MaxTares == 2
\* a tare is 1 or MaxTare microGal
MaxTare == 2

\* matplotlib.dates.date2num: days since the epoch; a datetime is held as
\* <<day, tick of the day>> and the result in ticks
date2num(datetime) == datetime[1] * MinutesPerDay * TicksPerMinute + datetime[2]

\* for tare in obstreeloop.tares, from tare k on: the tares of one station
RECURSIVE apply_tares(_, _, _, _)
apply_tares(t, tare, tares, k) ==
    IF k > Len(tares) THEN tare
    ELSE IF tares[k].checked = 2
    THEN apply_tares(t,
                     [idx \in 1..Len(tare) |->
                         IF idx <= Len(t) /\ t[idx] > date2num(tares[k].datetime)
                         THEN tare[idx] + tares[k].tare ELSE tare[idx]],
                     tares, k + 1)
    ELSE apply_tares(t, tare, tares, k + 1)

\* mutant: the old tare data is not cleared
station_tares_kept(obstreestation, tares) ==
    [obstreestation EXCEPT !.tare = apply_tares(obstreestation.t, obstreestation.tare,
                                                tares, 1)]
\* one station: the old tare data is cleared, then the tares are applied
station_tares(obstreestation, tares) ==
    [obstreestation EXCEPT !.tare =
        apply_tares(obstreestation.t,
                    [idx \in 1..Len(obstreestation.tare) |->
                        IF idx <= Len(obstreestation.t) THEN 0 ELSE obstreestation.tare[idx]],
                    tares, 1)]

process_tares_of(l) ==
    [l EXCEPT !.stations = [i \in 1..Len(l.stations) |-> station_tares(l.stations[i], l.tares)]]

\* the tare table of a loop: each tare has a check state, a time and a size
Tares ==
    [checked : CheckStates, datetime : {<<0, 1>>, <<1, 0>>}, tare : {1, MaxTare}]
\* the stations of the loop: the first is sampled at the time of the first
\* tare, at the time of the second and after both, the second once
LoopStations ==
    << [t |-> <<date2num(<<0, 1>>), date2num(<<1, 0>>), date2num(<<1, 1>>)>>,
        tare |-> <<0, 0, 0>>],
       [t |-> <<date2num(<<1, 0>>)>>, tare |-> <<0>>] >>

InitTares ==
    /\ NoAdjustment
    /\ drift_tab = TabDriftInit
    /\ obstreeloop \in { [ObsTreeLoopInit EXCEPT !.stations = LoopStations, !.tares = l] :
                           l \in ListsOf(Tares, MaxTares) }
    /\ survey = [deltas |-> <<>>]
    /\ call = NoCall

\* The user checks or unchecks a tare in the tare table
CheckTare ==
    /\ \E k \in 1..Len(obstreeloop.tares), state \in CheckStates :
        /\ state # obstreeloop.tares[k].checked
        /\ obstreeloop' = [obstreeloop EXCEPT !.tares[k].checked = state]
        /\ call' = [name |-> "check_tare", args |-> <<k>>, ret |-> <<>>, err |-> "none"]
    /\ UNCHANGED <<drift_tab, survey, adjustment_vars>>

\* process_tares(obstreeloop), as update_tares calls it
process_tares ==
    /\ obstreeloop' = process_tares_of(obstreeloop)
    /\ call' = [name |-> "process_tares", args |-> <<>>, ret |-> <<>>, err |-> "none"]
    /\ UNCHANGED <<drift_tab, survey, adjustment_vars>>

NextTares ==
    \/ CheckTare
    \/ process_tares

SpecTares == InitTares /\ [][NextTares]_vars

\* ------------------------------- calc_none_dg on a list of occupations
\* largest number of stations of a loop
MaxStations == 3
\* largest number of checked occupations of a loop
MaxOccupations == 4

\* plot_drift passes checked_stations(), the stations occupied in order,
\* and the loop's name
InitDg ==
    /\ NoAdjustment
    /\ drift_tab = TabDriftInit /\ obstreeloop = ObsTreeLoopInit
    /\ survey = [deltas |-> <<>>]
    /\ \E data \in ListsOf(1..MaxStations, MaxOccupations), loop_name \in {"loop1", "loop2"} :
        call = [name |-> "__init__", args |-> <<data, loop_name>>,
                ret |-> <<>>, err |-> "none"]

calc_none ==
    /\ call.name = "__init__"
    /\ call' = [call EXCEPT !.name = "calc_none_dg",
                            !.ret = calc_none_dg(call.args[1], call.args[2])]
    /\ UNCHANGED <<drift_tab, obstreeloop, survey, adjustment_vars>>

\* calc_netadj_dg reads the model type the combobox shows
calc_netadj ==
    /\ call.name = "__init__"
    /\ \E polydegree \in 0..(Len(ModelTypes) - 1) :
        /\ drift_tab' = [drift_tab EXCEPT !.drift_polydegree_combobox = polydegree]
        /\ call' = [call EXCEPT !.name = "calc_netadj_dg",
                                !.ret = calc_netadj_dg(call.args[1], call.args[2], polydegree)]
    /\ UNCHANGED <<obstreeloop, survey, adjustment_vars>>

NextDg ==
    \/ calc_none
    \/ calc_netadj

SpecDg == InitDg /\ [][NextDg]_vars

\* =================================================================== claims
Solved == op = "python_lsq_inversion" /\ err = "none"
AllFinite(M) == \A i \in 1..NRows(M) : \A j \in 1..Len(M[i]) : IsFinite(M[i][j])
HasZeroColumn(M) == \E j \in 1..NCols(M) : \A i \in 1..NRows(M) : M[i][j] = Zero
NonUnitWeight == \E i \in 1..NRows(P) : P[i][i] # Rat(1)
\* sum over i, j of v[i] * P[i][j] * v[j] for a column vector v
WeightedSquares(v) ==
    Sum([i \in 1..NRows(v) |->
            Sum([j \in 1..NRows(v) |-> Mul(Mul(v[i][1], P[i][j]), v[j][1])], NRows(v))],
        NRows(v))

\* C1: after python_lsq_inversion with dof > 0 and an invertible N = At.P.A,
\* the call returns and the stored X satisfies the normal equations
\* N.X = At.P.Obs.
C1_NormalEquations ==
    (op = "python_lsq_inversion" /\ dof > 0 /\ Det(Dot(Dot(Transpose(A), P), A)) # Zero)
    => /\ err = "none"
       /\ NRows(X) = NCols(A)
       /\ Dot(Dot(Dot(Transpose(A), P), A), X) = Dot(Dot(Transpose(A), P), Obs)
C1_Witness ==
    Solved /\ dof > 0 /\ NonUnitWeight /\ NCols(A) > 1 /\ \E k \in 1..NRows(X) : X[k][1] # Zero

\* C2: after python_lsq_inversion on a well-connected network with dof > 0,
\* every stored residual r[i] is (A.X)[i] - Obs[i] of the stored A, X and Obs.
C2_Residuals ==
    (Solved /\ dof > 0)
    => /\ NRows(r) = NRows(A)
       /\ \A i \in 1..NRows(A) :
            Add(r[i][1], Obs[i][1]) = Sum([j \in 1..NCols(A) |-> Mul(A[i][j], X[j][1])], NCols(A))
C2_Witness == Solved /\ dof > 0 /\ \E i \in 1..NRows(r) : r[i][1] # Zero

\* C3: after python_lsq_inversion, VtPV is a 1 x 1 array holding rt.P.r
\* recomputed from the stored r and P.
C3_VtPV ==
    Solved => /\ NRows(VtPV) = 1 /\ NCols(VtPV) = 1
              /\ VtPV[1][1] = WeightedSquares(r)
C3_Witness == Solved /\ NonUnitWeight /\ VtPV[1][1] # Zero

\* C4: after python_lsq_inversion with dof > 0, SDaposteriori squared is
\* VtPV/dof and var has one entry per unknown, the diagonal of inv(N) times
\* VtPV/dof.
C4_Covariance ==
    (Solved /\ dof > 0)
    => /\ Squared(SDaposteriori) = Div(VtPV[1][1], Rat(dof))
       /\ Len(var) = NCols(A)
       /\ \A k \in 1..NCols(A) :
            var[k] = Mul(Inv(Dot(Dot(Transpose(A), P), A))[k][k], Div(VtPV[1][1], Rat(dof)))
C4_Witness == Solved /\ dof > 1 /\ VtPV[1][1] # Zero /\ var[1] # Zero

\* C5: when lsq_statistics follows a python_lsq_inversion that returned on a
\* redundant network (dof > 0), it returns with adjustmentresults.chi2 equal
\* to rt.P.r recomputed from r and P, and adjustmentresults.dof equal to dof.
C5_Chi2 ==
    [][(Solved /\ dof > 0 /\ op' = "lsq_statistics")
       => /\ err' = "none"
          /\ adjustmentresults'.chi2 = WeightedSquares(r)
          /\ adjustmentresults'.dof = Set(dof)]_vars
C5_Witness ==
    /\ op = "lsq_statistics" /\ err = "none" /\ dof > 1
    /\ adjustmentresults.chi2 = WeightedSquares(r)
    /\ adjustmentresults.chi2 # Zero

\* C6: a report that is produced says "accepted" exactly when chi2 < chi2c
\* (so chi2 = chi2c is "rejected"), and get_report on results whose statistics
\* were computed returns its 12 lines whatever the outcome of the chi-test.
ChiTestLine == ret.lines[8].value.text
C6_ChiTest ==
    /\ (op = "get_report" /\ err = "none")
       => /\ ret.kind = "list" /\ Len(ret.lines) = 12
          /\ ChiTestLine \in {"accepted", "rejected"}
          /\ (ChiTestLine = "accepted"
              <=> Lt(adjustmentresults.chi2, adjustmentresults.chi2c))
          /\ (adjustmentresults.chi2 = adjustmentresults.chi2c => ChiTestLine = "rejected")
    /\ (op = "get_report" /\ adjustmentresults.dof # Unset) => err = "none"
C6_Witness ==
    /\ op = "get_report" /\ err = "none" /\ dof > 0
    /\ ChiTestLine = "rejected"
    /\ Lt(adjustmentresults.chi2c, adjustmentresults.chi2)

C8_Claim ==
    (op = "python_lsq_inversion" /\ HasZeroColumn(A) /\ dof > 0)
    => (err # "none" /\ err # "LinAlgError")

\* C9 (as claimed): python_lsq_inversion with dof <= 0 ends with an error and
\* writes none of X, r, VtPV, SDaposteriori, var.
C9_Claim ==
    [][(op' = "python_lsq_inversion" /\ dof <= 0 /\ NRows(A) > 0)
       => /\ err' # "none"
          /\ UNCHANGED <<X, r, VtPV, SDaposteriori, var>>]_vars

\* C10 (as claimed): with dof = 0, lsq_statistics on a solved adjustment raises
\* no division-by-zero error, and the report's SD line and chi2c are finite.
C10_Claim ==
    /\ (op = "lsq_statistics" /\ dof = 0 /\ VtPV # Empty) => err # "ZeroDivisionError"
    /\ (op = "get_report" /\ err = "none" /\ adjustmentresults.dof = Set(0))
       => /\ ret.lines[5].value.text = "number"
          /\ IsFinite(adjustmentresults.chi2c)

C12_Monotonic ==
    (op = "lsq_statistics" /\ err = "none" /\ dof >= 5)
    => /\ \A d2 \in (dof + 1)..(MaxDof + 1) :
            Lt(adjustmentresults.chi2c,
               chi2c_of(chi_1_alpha(adjustmentoptions.alpha), d2))
       /\ \A a2 \in Alphas :
            Lt(a2, adjustmentoptions.alpha)
            => Lt(adjustmentresults.chi2c, chi2c_of(chi_1_alpha(a2), dof))
C12_Witness ==
    /\ op = "lsq_statistics" /\ err = "none" /\ dof >= 5 /\ dof < MaxDof
    /\ adjustmentoptions.alpha = <<1, 20>>
    /\ Lt(Rat(dof), adjustmentresults.chi2c)

\* C13: in a report that follows lsq_statistics and python_lsq_inversion on
\* the same inputs (dof > 0), the "SD a posteriori" line shows chi2/dof, which
\* is the square of the SDaposteriori the solver stored and not that value:
\* the two differ unless chi2/dof is 0 or 1 (compared through their squares,
\* SDaposteriori being held as a square root).
C13_SDLine ==
    (/\ op = "get_report" /\ err = "none" /\ dof > 0 /\ VtPV # Empty
     /\ adjustmentresults.dof = Set(dof)
     /\ adjustmentresults.chi2 = VtPV[1][1]
     /\ Squared(SDaposteriori) = Div(VtPV[1][1], Rat(dof)))
    => /\ ret.lines[5].label = "SD a posteriori"
       /\ ret.lines[5].value = Fmt(Squared(SDaposteriori), 6)
       /\ (Squared(SDaposteriori) \notin {Zero, Rat(1)}
           => Fmt(Mul(Squared(SDaposteriori), Squared(SDaposteriori)), 6)
                # ret.lines[5].value)
C13_Witness ==
    /\ op = "get_report" /\ err = "none" /\ dof > 1 /\ VtPV # Empty
    /\ adjustmentresults.dof = Set(dof)
    /\ adjustmentresults.chi2 = VtPV[1][1]
    /\ Squared(SDaposteriori) = Div(VtPV[1][1], Rat(dof))
    /\ Squared(SDaposteriori) \notin {Zero, Rat(1)}
    /\ ret.lines[5].value.units > 0

\* the number of lines of a structured report with the given label
CountLabel(lines, label) == Cardinality({ i \in 1..Len(lines) : lines[i].label = label })

\* C14 (as claimed): results_string on structured results whose statistics
\* were computed returns the report with one "Calibration coefficient" line
\* per meter of cal_dic exactly when cal_coeff is set, and one "Specified
\* calibration coefficient" line per meter of the options' meter_cal_dict
\* exactly when specify_cal_coeff is set and cal_coeff is not.
C14_Claim ==
    (/\ op = "results_string" /\ err = "none"
     /\ adjustmentresults.text = <<>> /\ adjustmentresults.n_unknowns > 0
     /\ adjustmentresults.dof # Unset)
    => /\ ret.kind = "list"
       /\ CountLabel(ret.lines, "Calibration coefficient for meter")
            = (IF adjustmentoptions.cal_coeff THEN Len(adjustmentresults.cal_dic) ELSE 0)
       /\ CountLabel(ret.lines, "Specified calibration coefficient for meter")
            = (IF adjustmentoptions.specify_cal_coeff /\ ~adjustmentoptions.cal_coeff
               THEN Len(adjustmentoptions.meter_cal_dict[1]) ELSE 0)

\* C15 (as claimed): in a structured report every drift coefficient line of
\* degree 1 is without units and every line of a higher degree has the units,
\* whatever the coefficient's value.
C15_Claim ==
    (/\ op = "results_string" /\ err = "none" /\ ret.kind = "list"
     /\ adjustmentresults.text = <<>>)
    => \A i \in 1..Len(ret.lines) :
          ret.lines[i].label = "Drift coefficient, degree"
          => (ret.lines[i].value.unit = "" <=> ret.lines[i].value.degree = 1)

C17_Claim == op = "results_string" => (err = "none" /\ ret.kind = "list")

\* the addresses an instance reaches
Addresses(i) ==
    { adjustments[i].meter_dic, adjustments[i].deltas, adjustments[i].datums,
      adjustments[i].g_dic, adjustments[i].sd_dic, adjustments[i].netadj_loop_keys,
      adjustments[i].sta_dic_ls, adjustments[i].adjustmentoptions,
      adjustments[i].adjustmentresults,
      heap[adjustments[i].adjustmentresults].val.cal_dic,
      heap[adjustments[i].adjustmentresults].val.netadj_drift_dic,
      heap[adjustments[i].adjustmentresults].val.text }
\* every field of an instance, and the contents of every object it reaches
View(i) == <<adjustments[i], [a \in Addresses(i) |-> heap[a]]>>

\* C18: two instances reach no object in common, and a step that changes a
\* field of one instance, or the contents of an object it reaches, changes
\* nothing of the other.
C18_NoSharedState ==
    [][/\ \A i, j \in Instances : i # j => Addresses(i) \cap Addresses(j) = {}
       /\ \A i, j \in Instances :
            (i # j /\ View(i)' # View(i)) => View(j)' = View(j)]_vars
C18_Witness ==
    /\ adjustments[1].stage = "stats"
    /\ heap[adjustments[1].adjustmentresults].val.chi2 # Zero
    /\ heap[adjustments[1].adjustmentoptions].val.alpha = <<1, 100>>
    /\ heap[heap[adjustments[1].adjustmentresults].val.cal_dic].val # <<>>
    /\ adjustments[2].A = Empty /\ adjustments[2].X = Empty
    /\ heap[adjustments[2].adjustmentresults].val.dof = Unset
    /\ heap[adjustments[2].adjustmentoptions].val.alpha = <<1, 20>>
    /\ heap[heap[adjustments[2].adjustmentresults].val.cal_dic].val = <<>>

\* the results of instance i
ResultsOf(i) == heap[adjustments[i].adjustmentresults].val
\* C19: two instances whose X and statistics are those of their current
\* inputs, and whose A, P, Obs, dof and alpha are equal, hold equal X, r, VtPV,
\* var, chi2 and chi2c, whatever either instance was filled with and solved
\* for before.
C19_Pure ==
    \A i, j \in Instances :
        (/\ adjustments[i].stage = "stats" /\ adjustments[j].stage = "stats"
         /\ adjustments[i].A = adjustments[j].A /\ adjustments[i].P = adjustments[j].P
         /\ adjustments[i].Obs = adjustments[j].Obs
         /\ adjustments[i].dof = adjustments[j].dof
         /\ heap[adjustments[i].adjustmentoptions].val.alpha
              = heap[adjustments[j].adjustmentoptions].val.alpha)
        => /\ adjustments[i].X = adjustments[j].X /\ adjustments[i].r = adjustments[j].r
           /\ adjustments[i].VtPV = adjustments[j].VtPV
           /\ adjustments[i].var = adjustments[j].var
           /\ ResultsOf(i).chi2 = ResultsOf(j).chi2
           /\ ResultsOf(i).chi2c = ResultsOf(j).chi2c
C19_Witness ==
    /\ adjustments[1].stage = "stats" /\ adjustments[2].stage = "stats"
    /\ adjustments[1].Obs = adjustments[2].Obs
    /\ heap[adjustments[1].adjustmentoptions].val.alpha
         = heap[adjustments[2].adjustmentoptions].val.alpha
    /\ adjustments[1].X = adjustments[2].X
    /\ adjustments[1].X[1][1] # Zero
    /\ ResultsOf(1).chi2 # Zero /\ ResultsOf(1).chi2 = ResultsOf(2).chi2

\* the method and the model type the two comboboxes show
SelectedMethod == MethodOf(drift_tab.driftmethod_combobox)
SelectedModelType == ModelTypes[drift_tab.drift_polydegree_combobox + 1]

\* C21: after any drift-tab operation the 'Weight drift observations'
\* checkbox is enabled only while the selected drift correction method is
\* 'Continuous model' and the selected drift model type is 'Constant'
WeightedOnlyWhenConstant ==
    drift_tab.enabled.drift_plot_weighted =>
        SelectedMethod = "continuous" /\ SelectedModelType = "Constant"
C21_Claim == [][WeightedOnlyWhenConstant']_vars

\* C22: plot_drift completes and returns the loop's delta collection for
\* every drift method and every loop content; it never fails because the
\* returned deltas were not assigned
C22_Claim ==
    call.name \in {"plot_drift", "set_drift_method", "drift_combobox_updated"} =>
        call.err # "UnboundLocalError"

\* the deltas of seq that are not of the loop shown
OfOtherLoops(seq) ==
    LET Other(d) == d.loop # obstreeloop.name IN SelectSeq(seq, Other)
\* C23: after update_deltas_on_adj_tab(loop) with the loop among the
\* survey's loops with deltas, survey.deltas holds the deltas of the other
\* loops as before and in their order, followed by loop.deltas, and no other
\* delta of the loop; with the loop not among them it is unchanged
C23_Replaced ==
    [][call'.name = "update_deltas_on_adj_tab" =>
          IF call'.args[2]
          THEN survey'.deltas = OfOtherLoops(survey.deltas) \o obstreeloop.deltas
          ELSE survey'.deltas = survey.deltas]_vars
\* reached: the call replaced the loop's deltas in a survey that held an
\* entry of the loop twice, a dict of the loop and a delta of another loop
C23_Witness ==
    /\ call.name = "update_deltas_on_adj_tab" /\ call.args[2]
    /\ Len(call.args[1]) = MaxDeltas
    /\ \E i, j, k \in 1..Len(call.args[1]) :
        /\ i < j /\ k # i /\ k # j
        /\ call.args[1][i] = call.args[1][j]
        /\ call.args[1][i].loop = obstreeloop.name
        /\ call.args[1][i].form = "dict"
        /\ call.args[1][k].loop # obstreeloop.name
    /\ obstreeloop.deltas # <<>>
    /\ Len(survey.deltas) = 1 + Len(obstreeloop.deltas)

\* segment seg holds the input points i and i + 1 of line side by side
HoldsPair(seg, line, i) ==
    \E k \in 1..(Len(seg[1]) - 1) :
        /\ seg[1][k] = line[1][i] /\ seg[2][k] = line[2][i]
        /\ seg[1][k + 1] = line[1][i + 1] /\ seg[2][k + 1] = line[2][i + 1]
\* the points k and k + 1 of seg are adjacent points of line closer than
\* elapsed_time
FromPair(seg, k, line, elapsed_time) ==
    \E i \in 1..(Len(line[1]) - 1) :
        /\ seg[1][k] = line[1][i] /\ seg[2][k] = line[2][i]
        /\ seg[1][k + 1] = line[1][i + 1] /\ seg[2][k + 1] = line[2][i + 1]
        /\ WithinElapsed(line[1][i + 1] - line[1][i], elapsed_time)
RECURSIVE TareSum(_, _, _)
TareSum(tares, t, k) ==
    IF k = 0 THEN 0
    ELSE TareSum(tares, t, k - 1)
         + (IF tares[k].checked = 2 /\ date2num(tares[k].datetime) < t
            THEN tares[k].tare ELSE 0)
\* C25: after process_tares(loop), for every station and every sample
\* idx, tare[idx] is the sum of tare.tare over the tares of the loop that
\* are checked and strictly earlier than t[idx], whatever tare held before
C25_TareSums ==
    call.name = "process_tares" =>
        \A i \in 1..Len(obstreeloop.stations) :
            \A idx \in 1..Len(obstreeloop.stations[i].t) :
                obstreeloop.stations[i].tare[idx]
                    = TareSum(obstreeloop.tares, obstreeloop.stations[i].t[idx],
                              Len(obstreeloop.tares))
\* reached: two tares, the earlier one unchecked; the last sample holds
\* the later tare alone, the sample at the later tare's time holds nothing
C25_Witness ==
    /\ call.name = "process_tares"
    /\ Len(obstreeloop.tares) = 2
    /\ obstreeloop.tares[1].checked = 0 /\ obstreeloop.tares[1].datetime = <<0, 1>>
    /\ obstreeloop.tares[2].checked = 2 /\ obstreeloop.tares[2].datetime = <<1, 0>>
    /\ obstreeloop.stations[1].tare = <<0, 0, obstreeloop.tares[2].tare>>

\* C26: calc_none_dg on n occupations returns n - 1 deltas (none when
\* n <= 1), one for each pair of successive occupations (k, k + 1), with
\* drift correction 0 and the loop name given, the most recent pair first
C26_Successive ==
    call.name = "calc_none_dg" =>
        /\ Len(call.ret) = IF Len(call.args[1]) <= 1 THEN 0 ELSE Len(call.args[1]) - 1
        /\ \A k \in 1..(Len(call.args[1]) - 1) :
            /\ call.ret[Len(call.args[1]) - k].station1 = call.args[1][k]
            /\ call.ret[Len(call.args[1]) - k].station2 = call.args[1][k + 1]
            /\ call.ret[Len(call.args[1]) - k].driftcorr = Zero
            /\ call.ret[Len(call.args[1]) - k].loop = call.args[2]
\* reached: three deltas from four occupations, the first delta returned
\* being that of the last pair
C26_Witness ==
    /\ call.name = "calc_none_dg"
    /\ call.args[1] = <<1, 2, 3, 1>>
    /\ Len(call.ret) = 3
    /\ call.ret[1].station1 = 3 /\ call.ret[1].station2 = 1
    /\ call.ret[3].station1 = 1 /\ call.ret[3].station2 = 2

\* C27: after set_drift_method applies 'netadj' with update, the items
\* 'Constant' and 'Spline' (0 and 1) of the drift model type combobox are
\* disabled; after it applies 'continuous' both are enabled, whatever
\* methods were applied before
C27_Items ==
    call.name = "set_drift_method" =>
        /\ obstreeloop.drift_method = "netadj" =>
               ~drift_tab.enabled.item0 /\ ~drift_tab.enabled.item1
        /\ obstreeloop.drift_method = "continuous" =>
               drift_tab.enabled.item0 /\ drift_tab.enabled.item1
\* reached: 'netadj' applied on a loop for which 'Spline' was chosen
\* earlier under the continuous method, so the items were enabled before
C27_Witness ==
    /\ call.name = "set_drift_method" /\ call.err = "none"
    /\ obstreeloop.drift_method = "netadj"
    /\ obstreeloop.drift_cont_method = 1
    /\ ~drift_tab.enabled.item0 /\ ~drift_tab.enabled.item1

\* the drift controls whose enabled state the handlers set
Controls == {"offset_slider", "tension_slider", "drift_polydegree_combobox",
             "drift_cont_startendcombobox", "drift_plot_hz_extent",
             "drift_plot_weighted"}
\* the enabled states set_drift_method gives when it applies the method,
\* with the model type shown, on a tab on which no method was applied before
FirstApplied(method, modeltype) ==
    show_method(TabDriftInit,
                [ObsTreeLoopInit EXCEPT !.drift_netadj_method = modeltype,
                                        !.drift_cont_method = modeltype],
                method).enabled
\* C28: after set_drift_method applies a method with update, the enabled
\* state of every drift control is determined by the applied method and the
\* selected model type alone: it is the state they give on a new tab,
\* whatever methods were applied earlier
C28_Claim ==
    (call.name = "set_drift_method" /\ call.err = "none") =>
        \A w \in Controls :
            drift_tab.enabled[w] =
                FirstApplied(obstreeloop.drift_method,
                             drift_tab.drift_polydegree_combobox)[w]

\* C29: in every reachable state of the drift tab the spline tension slider
\* is enabled only while the drift method is 'continuous' and the drift
\* model type is 'Spline' (index 1)
C29_Claim ==
    drift_tab.enabled.tension_slider =>
        /\ obstreeloop.drift_method = "continuous"
        /\ drift_tab.drift_polydegree_combobox = 1

====
